---------------------------- MODULE Spec2Model ----------------------------
(***************************************************************************)
(* Model of neurokit2/rsp/rsp_findpeaks.py: the "khodadad2018" and         *)
(* "biosppy" pipelines of rsp_findpeaks.                                   *)
(*                                                                         *)
(*   _rsp_findpeaks_extrema  -> _rsp_findpeaks_outliers                    *)
(*                           -> _rsp_findpeaks_sanitize -> (rate filter)   *)
(*                                                                         *)
(* Conventions.  A numpy array is a TLA+ sequence; the VALUES stored in    *)
(* index arrays (risex, allx, extrema, peaks, ...) are the 0-based sample  *)
(* indices of the Python code, so sample i of the signal s is s[i + 1].    *)
(* Samples are integers.  amplitude_min is carried in tenths (3 stands for *)
(* 0.3) and the median as twice its value, so that                         *)
(*     vertical_diff > median_diff * amplitude_min                         *)
(* is the integer comparison 20 * vertical_diff > median2 * tenths.  The   *)
(* sample values and thresholds used here never make that product a tie    *)
(* that floating point would round the other way.                          *)
(* A Python exception (IndexError) is the state pc = "Failed".             *)
(***************************************************************************)
EXTENDS Integers, Sequences, FiniteSets, TLC

VARIABLES rsp_cleaned,    \* the input signal
          method,         \* "khodadad2018" or "biosppy"
          amplitude_min,  \* argument of rsp_findpeaks, in tenths
          sampling_rate,  \* argument of rsp_findpeaks
          pc,             \* position in the pipeline
          risex, fallx,   \* locals of _rsp_findpeaks_extrema
          allx, argextremes,
          located,        \* value returned by _rsp_findpeaks_extrema
          retained,       \* `extrema` after line 225 (amplitude step)
          extrema,        \* `extrema` returned by _rsp_findpeaks_outliers
          amplitudes,     \* `amplitudes` returned by _rsp_findpeaks_outliers
          peaks, troughs, \* value returned by _rsp_findpeaks_sanitize
          info,           \* <<>> while nothing is returned, else <<dict>>
          re_input,       \* second filter+sanitize pass: its input,
          re_retained,    \*   `extrema` after its amplitude step,
          re_extrema,     \*   `extrema` after its alternation repair,
          re_info         \*   and its result (<<>> if it raised)

vars == <<rsp_cleaned, method, amplitude_min, sampling_rate, pc, risex, fallx,
          allx, argextremes, located, retained, extrema, amplitudes, peaks,
          troughs, info, re_input, re_retained, re_extrema, re_info>>

----------------------------------------------------------------------------
(* Bounds of the explored inputs *)

MaxLen == 6
MaxZig == 6
MaxMag == 2
MaxRepeat == 3

(* Program constants *)

DefaultAmplitudeMin == 3
DefaultSamplingRate == 1000

----------------------------------------------------------------------------
(* numpy helpers, computed as numpy computes them *)

Abs(x) == IF x < 0 THEN -x ELSE x

Sign(x) == IF x > 0 THEN 1 ELSE IF x < 0 THEN -1 ELSE 0

RECURSIVE WhereFrom(_, _)
WhereFrom(mask, i) ==
    IF i > Len(mask) THEN <<>>
    ELSE (IF mask[i] THEN <<i - 1>> ELSE <<>>) \o WhereFrom(mask, i + 1)

\* np.where(mask)[0]: the 0-based positions where mask is true, ascending
Where(mask) == WhereFrom(mask, 1)

RECURSIVE Insert(_, _)
Insert(x, sorted) ==
    IF sorted = <<>> THEN <<x>>
    ELSE IF x < Head(sorted) THEN <<x>> \o sorted
    ELSE <<Head(sorted)>> \o Insert(x, Tail(sorted))

RECURSIVE Sort(_)
\* ndarray.sort(): ascending, duplicates kept
Sort(a) == IF a = <<>> THEN <<>> ELSE Insert(a[Len(a)], Sort(SubSeq(a, 1, Len(a) - 1)))

\* a[beg:end] for 0 <= beg <= end <= len(a)
Slice(a, beg, end) == SubSeq(a, beg + 1, end)

\* np.argmax(w): 0-based position of the first occurrence of the maximum
ArgMax(w) ==
    (CHOOSE k \in 1..Len(w) :
        /\ \A j \in 1..Len(w) : w[j] <= w[k]
        /\ \A j \in 1..(k - 1) : w[j] < w[k]) - 1

\* np.argmin(w): 0-based position of the first occurrence of the minimum
ArgMin(w) ==
    (CHOOSE k \in 1..Len(w) :
        /\ \A j \in 1..Len(w) : w[j] >= w[k]
        /\ \A j \in 1..(k - 1) : w[j] > w[k]) - 1

\* np.diff(a)
Diff(a) == [k \in 1..(Len(a) - 1) |-> a[k + 1] - a[k]]

\* a[idx] for an index array idx (fancy indexing)
Take(a, idx) == [k \in 1..Len(idx) |-> a[idx[k] + 1]]

\* np.delete(a, idx) for a set idx of 0-based positions
RECURSIVE DeleteFrom(_, _, _)
DeleteFrom(a, idx, i) ==
    IF i > Len(a) THEN <<>>
    ELSE (IF (i - 1) \in idx THEN <<>> ELSE <<a[i]>>) \o DeleteFrom(a, idx, i + 1)

Delete(a, idx) == DeleteFrom(a, idx, 1)

Range(a) == {a[k] : k \in 1..Len(a)}

\* twice np.median(a) of a non-empty a (the median of an empty array is nan)
Median2(a) ==
    LET s == Sort(a)
        n == Len(a)
    IN  IF n % 2 = 1 THEN 2 * s[(n + 1) \div 2]
        ELSE s[n \div 2] + s[n \div 2 + 1]

----------------------------------------------------------------------------
(* _rsp_findpeaks_extrema *)

Greater(s) == [i \in 1..Len(s) |-> s[i] > 0]

\* variant: a sample equal to 0 counted as negative
Smaller_OrZero(s) == [i \in 1..Len(s) |-> s[i] <= 0]

Smaller(s) == [i \in 1..Len(s) |-> s[i] < 0]

\* np.bitwise_and(a[:-1], b[1:])
AndShifted(a, b) == [i \in 1..(Len(a) - 1) |-> a[i] /\ b[i + 1]]

Risex(s) == Where(AndShifted(Smaller(s), Greater(s)))

Fallx(s) == Where(AndShifted(Greater(s), Smaller(s)))

\* lines 179-182, for non-empty rx and fx
Startx(rx, fx) == IF rx[1] < fx[1] THEN "rise" ELSE "fall"

Allx(rx, fx) == Sort(rx \o fx)

\* variant: the parity test inverted
ArgExtreme_Inverted(startx, i) ==
    IF startx = "rise"
    THEN (IF (i + 1) % 2 # 0 THEN "argmin" ELSE "argmax")
    ELSE (IF (i + 1) % 2 # 0 THEN "argmax" ELSE "argmin")

\* lines 194-203: the function assigned to argextreme in iteration i
ArgExtreme(startx, i) ==
    IF startx = "rise"
    THEN (IF (i + 1) % 2 # 0 THEN "argmax" ELSE "argmin")
    ELSE (IF (i + 1) % 2 # 0 THEN "argmin" ELSE "argmax")

\* lines 207-211: the extreme of window i (0-based) of the crossings ax
WindowExtreme(s, ax, which, i) ==
    LET beg == ax[i + 1]
        end == ax[i + 2]
        w   == Slice(s, beg, end)
    IN  beg + (IF which = "argmax" THEN ArgMax(w) ELSE ArgMin(w))

\* risex[0] / fallx[0] raise IndexError on an empty array (line 179)
rsp_findpeaks_extrema(s) ==
    LET rx == Risex(s)
        fx == Fallx(s)
    IN  IF rx = <<>> \/ fx = <<>>
        THEN [ok |-> FALSE, risex |-> rx, fallx |-> fx, allx |-> <<>>,
              argextremes |-> <<>>, extrema |-> <<>>]
        ELSE LET ax    == Allx(rx, fx)
                 start == Startx(rx, fx)
                 args  == [k \in 1..(Len(ax) - 1) |-> ArgExtreme(start, k - 1)]
             IN  [ok |-> TRUE, risex |-> rx, fallx |-> fx, allx |-> ax,
                  argextremes |-> args,
                  extrema |-> [k \in 1..(Len(ax) - 1) |->
                                  WindowExtreme(s, ax, args[k], k - 1)]]

----------------------------------------------------------------------------
(* _rsp_findpeaks_outliers *)

\* lines 222-225: the amplitude step; amin in tenths.  With fewer than two
\* extrema vertical_diff is empty and so is the result.
AmplitudeStep(s, ext, amin) ==
    LET vertical_diff == [k \in 1..(Len(ext) - 1) |->
                             Abs(Diff(Take(s, ext))[k])]
        min_diff == Where([k \in 1..Len(vertical_diff) |->
                             20 * vertical_diff[k] > Median2(vertical_diff) * amin])
    IN  Take(ext, min_diff)

\* lines 230-233: the positions removed by the alternation repair
RemoveExt(amps) ==
    LET d        == [k \in 1..(Len(amps) - 1) |-> Sign(Diff(amps)[k])]
        extdiffs == [k \in 1..(Len(d) - 1) |-> d[k] + d[k + 1]]
    IN  \* extdiffs[j] is the 0-based element j - 1, and removeext adds 1
        {j \in 1..Len(extdiffs) : extdiffs[j] # 0}

rsp_findpeaks_outliers(s, ext, amin) ==
    LET kept == AmplitudeStep(s, ext, amin)
        amps == Take(s, kept)
        rem  == RemoveExt(amps)
    IN  [retained |-> kept, extrema |-> Delete(kept, rem),
         amplitudes |-> Delete(amps, rem)]

----------------------------------------------------------------------------
(* _rsp_findpeaks_sanitize *)

\* a[start:stop:2] for 0 <= start and 0 <= stop <= len(a)
EverySecond(a, start, stop) ==
    [k \in 1..(IF stop > start THEN (stop - start + 1) \div 2 ELSE 0) |->
        a[start + 2 * (k - 1) + 1]]

\* variant: extrema[0::2]
Peaks_FromZero(ext) == EverySecond(ext, 0, Len(ext))

\* extrema[1::2]
Peaks(ext) == EverySecond(ext, 1, Len(ext))

\* variant: extrema[0::2]
Troughs_NoStop(ext) == EverySecond(ext, 0, Len(ext))

\* extrema[0:-1:2]; the stop -1 is len - 1, or 0 for an empty array
Troughs(ext) ==
    EverySecond(ext, 0, IF Len(ext) = 0 THEN 0 ELSE Len(ext) - 1)

\* variant: a sanitizer that returns empty sequences for fewer than 2 extrema
rsp_findpeaks_sanitize_lenient(ext, amps) ==
    IF Len(amps) < 2
    THEN [ok |-> TRUE, peaks |-> <<>>, troughs |-> <<>>]
    ELSE LET n  == Len(amps)
             e1 == IF amps[1] > amps[2] THEN Delete(ext, {0}) ELSE ext
             e2 == IF amps[n] < amps[n - 1]
                   THEN Delete(e1, {Len(e1) - 1}) ELSE e1
         IN  [ok |-> TRUE, peaks |-> Peaks(e2), troughs |-> Troughs(e2)]

\* amplitudes[1] / amplitudes[-2] raise IndexError below length 2
rsp_findpeaks_sanitize(ext, amps) ==
    IF Len(amps) < 2
    THEN [ok |-> FALSE, peaks |-> <<>>, troughs |-> <<>>]
    ELSE LET n  == Len(amps)
             e1 == IF amps[1] > amps[2] THEN Delete(ext, {0}) ELSE ext
             e2 == IF amps[n] < amps[n - 1]
                   THEN Delete(e1, {Len(e1) - 1}) ELSE e1
         IN  [ok |-> TRUE, peaks |-> Peaks(e2), troughs |-> Troughs(e2)]

----------------------------------------------------------------------------
(* rate filter of _rsp_findpeaks_biosppy *)

\* variant: the later peak of a short interval is the outlier
OutlierIdcs_Second(pk, rate) ==
    {i + 1 : i \in {j \in 0..(Len(pk) - 2) :
                      10 * (pk[j + 2] - pk[j + 1]) < 17 * rate}}

\* line 119: np.where((np.diff(peaks) / sampling_rate) < 1.7)[0];
\* d / rate < 1.7 is 10 * d < 17 * rate
OutlierIdcs(pk, rate) ==
    {i \in 0..(Len(pk) - 2) : 10 * (pk[i + 2] - pk[i + 1]) < 17 * rate}

\* lines 119-124
RateFilter(pk, tr, rate) ==
    [RSP_Peaks   |-> Delete(pk, OutlierIdcs(pk, rate)),
     RSP_Troughs |-> Delete(tr, OutlierIdcs(pk, rate))]

----------------------------------------------------------------------------
(* _rsp_findpeaks_khodadad as a function of its arguments (lines 131-136) *)

rsp_findpeaks_khodadad(s, amin) ==
    LET e == rsp_findpeaks_extrema(s)
        o == rsp_findpeaks_outliers(s, e.extrema, amin)
        r == rsp_findpeaks_sanitize(o.extrema, o.amplitudes)
    IN  IF e.ok /\ r.ok
        THEN [ok |-> TRUE, RSP_Peaks |-> r.peaks, RSP_Troughs |-> r.troughs]
        ELSE [ok |-> FALSE, RSP_Peaks |-> <<>>, RSP_Troughs |-> <<>>]

----------------------------------------------------------------------------
(* Inputs *)

\* every pattern of negative, zero and positive samples of at most MaxLen
\* samples
GeneralSignals == UNION {[1..n -> {-1, 0, 1}] : n \in 0..MaxLen}

\* signals that change sign at every sample: one crossing per sample, so
\* that many extrema fit in few samples
ZigzagSignals ==
    UNION {{[i \in 1..n |-> sgn * (IF i % 2 = 1 THEN m[i] ELSE -m[i])] :
                m \in [1..n -> 1..MaxMag], sgn \in {1, -1}} :
           n \in 1..MaxZig}

RECURSIVE Repeat(_, _)
Repeat(a, n) == IF n = 0 THEN <<>> ELSE a \o Repeat(a, n - 1)

\* a block of four sign-alternating samples, repeated up to MaxRepeat times
RepeatedSignals ==
    {Repeat(<<sgn * m[1], -sgn * m[2], sgn * m[3], -sgn * m[4]>>, n) :
        <<m, sgn, n>> \in [1..4 -> 1..MaxMag] \X {1, -1} \X (1..MaxRepeat)}

\* one period of a zero-centred wave with one maximum and one minimum
SineShapes == {<<1, 2, 1, -1, -2, -1>>,
               <<1, 3, 2, -1, -3, -2>>,
               <<2, 1, -2, -1>>,
               <<1, 2, -1, -2>>,
               <<1, 3, 4, 2, -1, -3, -4, -2>>,
               <<0, 2, 3, 2, 0, -2, -3, -2>>}

Rotate(a, ph) == SubSeq(a, ph + 1, Len(a)) \o SubSeq(a, 1, ph)

\* exactly three full periods, starting at any phase
SineSignals ==
    {Rotate(sh, ph) \o Rotate(sh, ph) \o Rotate(sh, ph) :
        <<sh, ph>> \in UNION {{<<s, p>> : p \in 0..(Len(s) - 1)} : s \in SineShapes}}

AmplitudeMins == {0, DefaultAmplitudeMin, 10}

SamplingRates == {1, 4}

----------------------------------------------------------------------------
(* The pipeline *)

Init ==
    /\ rsp_cleaned \in GeneralSignals \cup ZigzagSignals \cup RepeatedSignals
                       \cup SineSignals
    /\ method \in {"khodadad2018", "biosppy"}
    /\ amplitude_min \in AmplitudeMins
    /\ sampling_rate \in SamplingRates \cup {DefaultSamplingRate}
    /\ method = "khodadad2018" => sampling_rate = DefaultSamplingRate
    /\ method = "biosppy" => /\ amplitude_min = DefaultAmplitudeMin
                             /\ sampling_rate \in SamplingRates
    /\ pc = "Start"
    /\ risex = <<>> /\ fallx = <<>> /\ allx = <<>> /\ argextremes = <<>>
    /\ located = <<>> /\ retained = <<>> /\ extrema = <<>>
    /\ amplitudes = <<>> /\ peaks = <<>> /\ troughs = <<>> /\ info = <<>>
    /\ re_input = <<>> /\ re_retained = <<>> /\ re_extrema = <<>>
    /\ re_info = <<>>

\* the amplitude_min the method passes to _rsp_findpeaks_outliers
\* (line 113: 0 for biosppy; line 132: the caller's for khodadad2018)
EffectiveAmplitudeMin == IF method = "biosppy" THEN 0 ELSE amplitude_min

\* lines 112 / 131: extrema = _rsp_findpeaks_extrema(rsp_cleaned)
FindExtrema ==
    /\ pc = "Start"
    /\ LET r == rsp_findpeaks_extrema(rsp_cleaned)
       IN  /\ risex' = r.risex
           /\ fallx' = r.fallx
           /\ allx' = r.allx
           /\ argextremes' = r.argextremes
           /\ located' = r.extrema
           /\ pc' = IF r.ok THEN "ExtremaLocalized" ELSE "Failed"
    /\ UNCHANGED <<rsp_cleaned, method, amplitude_min, sampling_rate, retained,
                   extrema, amplitudes, peaks, troughs, info, re_input,
                   re_retained, re_extrema, re_info>>

\* lines 113 / 132: extrema, amplitudes = _rsp_findpeaks_outliers(...)
RemoveOutliers ==
    /\ pc = "ExtremaLocalized"
    /\ LET r == rsp_findpeaks_outliers(rsp_cleaned, located, EffectiveAmplitudeMin)
       IN  /\ retained' = r.retained
           /\ extrema' = r.extrema
           /\ amplitudes' = r.amplitudes
    /\ pc' = "OutliersRemoved"
    /\ UNCHANGED <<rsp_cleaned, method, amplitude_min, sampling_rate, risex,
                   fallx, allx, argextremes, located, peaks, troughs, info,
                   re_input, re_retained, re_extrema, re_info>>

\* lines 115 / 133: peaks, troughs = _rsp_findpeaks_sanitize(extrema, amplitudes)
Sanitize ==
    /\ pc = "OutliersRemoved"
    /\ LET r == rsp_findpeaks_sanitize(extrema, amplitudes)
       IN  /\ peaks' = r.peaks
           /\ troughs' = r.troughs
           /\ pc' = IF r.ok THEN "Sanitized" ELSE "Failed"
    /\ UNCHANGED <<rsp_cleaned, method, amplitude_min, sampling_rate, risex,
                   fallx, allx, argextremes, located, retained, extrema,
                   amplitudes, info, re_input, re_retained, re_extrema,
                   re_info>>

\* lines 135-136
KhodadadReturn ==
    /\ pc = "Sanitized"
    /\ method = "khodadad2018"
    /\ info' = <<[RSP_Peaks |-> peaks, RSP_Troughs |-> troughs]>>
    /\ pc' = "Done"
    /\ UNCHANGED <<rsp_cleaned, method, amplitude_min, sampling_rate, risex,
                   fallx, allx, argextremes, located, retained, extrema,
                   amplitudes, peaks, troughs, re_input, re_retained,
                   re_extrema, re_info>>

\* lines 119-125
BiosppyReturn ==
    /\ pc = "Sanitized"
    /\ method = "biosppy"
    /\ info' = <<RateFilter(peaks, troughs, sampling_rate)>>
    /\ pc' = "Done"
    /\ UNCHANGED <<rsp_cleaned, method, amplitude_min, sampling_rate, risex,
                   fallx, allx, argextremes, located, retained, extrema,
                   amplitudes, peaks, troughs, re_input, re_retained,
                   re_extrema, re_info>>

\* The filter and sanitize stages run again on the returned landmarks, as
\* lines 157-162 run them on the peaks and troughs of another detector:
\* merge and sort, _rsp_findpeaks_outliers with amplitude_min=0, sanitize.
Resanitize ==
    /\ pc = "Done"
    /\ LET merged == Sort(info[1].RSP_Peaks \o info[1].RSP_Troughs)
           o == rsp_findpeaks_outliers(rsp_cleaned, merged, 0)
           r == rsp_findpeaks_sanitize(o.extrema, o.amplitudes)
       IN  /\ re_input' = merged
           /\ re_retained' = o.retained
           /\ re_extrema' = o.extrema
           /\ re_info' = IF r.ok
                         THEN <<[RSP_Peaks |-> r.peaks, RSP_Troughs |-> r.troughs]>>
                         ELSE <<>>
    /\ pc' = "Resanitized"
    /\ UNCHANGED <<rsp_cleaned, method, amplitude_min, sampling_rate, risex,
                   fallx, allx, argextremes, located, retained, extrema,
                   amplitudes, peaks, troughs, info>>

Next ==
    \/ FindExtrema
    \/ RemoveOutliers
    \/ Sanitize
    \/ KhodadadReturn
    \/ BiosppyReturn
    \/ Resanitize

Spec == Init /\ [][Next]_vars

----------------------------------------------------------------------------
(* Properties *)

\* sample i (0-based) of the input signal
Sample(i) == rsp_cleaned[i + 1]

Returned == info # <<>>

LocatorPassed == pc # "Start" /\ allx # <<>>

SanitizerReached == LocatorPassed /\ pc \notin {"ExtremaLocalized", "OutliersRemoved"}

\* C1: every returned result has as many peaks as troughs.
C1_EqualLength ==
    Returned => Len(info[1].RSP_Peaks) = Len(info[1].RSP_Troughs)

\* an odd number of extrema reaches the split into peaks and troughs
C1_Witness ==
    /\ Returned
    /\ method = "khodadad2018"
    /\ Len(extrema) = 3
    /\ amplitudes[1] <= amplitudes[2] /\ amplitudes[2] <= amplitudes[3]
    /\ Len(info[1].RSP_Peaks) = 1

\* C2: in every returned result troughs[k] < peaks[k] < troughs[k+1]; each
\* sequence is strictly increasing, the smallest returned index is a trough
\* and the largest a peak.
C2_Interleaved ==
    Returned =>
        LET p == info[1].RSP_Peaks
            t == info[1].RSP_Troughs
        IN  /\ Len(p) = Len(t)
            /\ \A k \in 1..Len(p) :
                  /\ t[k] < p[k]
                  /\ k < Len(p) => p[k] < t[k + 1]
            /\ \A k \in 1..(Len(p) - 1) : p[k] < p[k + 1] /\ t[k] < t[k + 1]
            /\ \A x \in Range(p) \cup Range(t) : t[1] <= x /\ x <= p[Len(p)]

C2_Witness ==
    /\ Returned
    /\ method = "biosppy"
    /\ Len(info[1].RSP_Peaks) = 2
    /\ info[1].RSP_Troughs[2] > info[1].RSP_Peaks[1] + 1

\* C3: in every returned result each peak is strictly higher than the trough
\* before it and the trough after it.
C3_PolarityInAmplitude ==
    Returned =>
        LET p == info[1].RSP_Peaks
            t == info[1].RSP_Troughs
        IN  \A k \in 1..Len(p) :
               /\ Sample(p[k]) > Sample(t[k])
               /\ k < Len(t) => Sample(p[k]) > Sample(t[k + 1])

NoRisingCrossing ==
    ~ \E i \in 0..(Len(rsp_cleaned) - 2) : Sample(i) < 0 /\ Sample(i + 1) > 0

NoFallingCrossing ==
    ~ \E i \in 0..(Len(rsp_cleaned) - 2) : Sample(i) > 0 /\ Sample(i + 1) < 0

\* C4: a signal without a rising or without a falling zero crossing makes the
\* extrema locator fail, and nothing is returned.
C4_NoCrossingFails ==
    (pc # "Start" /\ (NoRisingCrossing \/ NoFallingCrossing)) =>
        /\ pc = "Failed"
        /\ located = <<>> /\ peaks = <<>> /\ troughs = <<>>
        /\ info = <<>>

\* a ramp: never decreasing, one rising crossing
C4_Witness ==
    /\ pc = "Failed"
    /\ ~ NoRisingCrossing
    /\ NoFallingCrossing
    /\ Len(rsp_cleaned) >= 4
    /\ \A i \in 0..(Len(rsp_cleaned) - 2) : Sample(i) <= Sample(i + 1)

\* C5: when fewer than 2 extrema are left by the outlier filter the sanitizer
\* fails and nothing is returned; a signal with one rising and one falling
\* crossing ends this way.
C5_TooFewExtremaFails ==
    /\ (SanitizerReached /\ Len(extrema) < 2) => (pc = "Failed" /\ info = <<>>)
    /\ (SanitizerReached /\ Len(risex) = 1 /\ Len(fallx) = 1) =>
           (pc = "Failed" /\ info = <<>>)

C5_Witness ==
    /\ pc = "Failed"
    /\ SanitizerReached
    /\ Len(located) >= 3
    /\ Len(extrema) = 1

\* C6: the biosppy result is the khodadad2018 result for amplitude_min = 0
\* without the positions i whose peak is less than 1.7 s before the next
\* peak; the other pairs are kept in order.
C6_BiosppyIsRateFilteredKhodadad ==
    (method = "biosppy" /\ Returned) =>
        LET k    == rsp_findpeaks_khodadad(rsp_cleaned, 0)
            n    == Len(k.RSP_Peaks)
            kept == {i \in 1..n :
                        ~ (i < n /\ 10 * (k.RSP_Peaks[i + 1] - k.RSP_Peaks[i])
                                      < 17 * sampling_rate)}
            nth(j) == CHOOSE i \in kept : Cardinality({x \in kept : x <= i}) = j
        IN  /\ k.ok
            /\ Len(info[1].RSP_Peaks) = Cardinality(kept)
            /\ Len(info[1].RSP_Troughs) = Cardinality(kept)
            /\ \A j \in 1..Cardinality(kept) :
                  /\ info[1].RSP_Peaks[j] = k.RSP_Peaks[nth(j)]
                  /\ info[1].RSP_Troughs[j] = k.RSP_Troughs[nth(j)]

\* two peaks 1.5 s apart (40 breaths per minute): one pair is lost
C6_Witness ==
    /\ method = "biosppy"
    /\ Returned
    /\ Len(peaks) = 2
    /\ 2 * (peaks[2] - peaks[1]) = 3 * sampling_rate
    /\ Len(info[1].RSP_Peaks) = 1

\* C7: with amplitude_min = 0 the amplitude step removes no extremum.
C7_ZeroDisablesAmplitudeStep ==
    (LocatorPassed /\ pc # "ExtremaLocalized" /\ EffectiveAmplitudeMin = 0) =>
        retained = located

\* the merged landmarks alternate strictly in amplitude, from a trough to a peak
AlreadySanitized(m) ==
    /\ m # <<>>
    /\ Len(m) % 2 = 0
    /\ \A k \in 1..(Len(m) - 1) :
          IF k % 2 = 1 THEN Sample(m[k]) < Sample(m[k + 1])
                       ELSE Sample(m[k]) > Sample(m[k + 1])

\* C8: filter (amplitude_min = 0) and sanitize applied to an already
\* sanitized sequence give the same peaks and troughs, and the alternation
\* repair removes nothing.
C8_Idempotent ==
    (pc = "Resanitized" /\ AlreadySanitized(re_input)) =>
        /\ re_info = info
        /\ re_extrema = re_retained

IsSine == rsp_cleaned \in SineSignals

SignalMax == CHOOSE v \in Range(rsp_cleaned) : \A w \in Range(rsp_cleaned) : w <= v

SignalMin == CHOOSE v \in Range(rsp_cleaned) : \A w \in Range(rsp_cleaned) : w >= v

NearMaximum(i) ==
    \E j \in {i - 1, i, i + 1} :
        j \in 0..(Len(rsp_cleaned) - 1) /\ Sample(j) = SignalMax

NearMinimum(i) ==
    \E j \in {i - 1, i, i + 1} :
        j \in 0..(Len(rsp_cleaned) - 1) /\ Sample(j) = SignalMin

DefaultCallFinished ==
    /\ IsSine
    /\ method = "khodadad2018"
    /\ amplitude_min = DefaultAmplitudeMin
    /\ pc \in {"Done", "Failed"}

\* C9 as stated: three full periods give exactly 3 peaks and 3 troughs, the
\* peaks within one sample of a maximum and the troughs at a minimum.
C9_ThreePeriodsThreePairs ==
    DefaultCallFinished =>
        /\ Returned
        /\ Len(info[1].RSP_Peaks) = 3
        /\ Len(info[1].RSP_Troughs) = 3
        /\ \A k \in 1..3 : NearMaximum(info[1].RSP_Peaks[k])
        /\ \A k \in 1..3 : Sample(info[1].RSP_Troughs[k]) = SignalMin

\* C9 amended: three full periods either fail in the locator (samples equal
\* to 0 hide the crossings) or give 1 or 2 peaks and as many troughs, each
\* peak within one sample of a maximum of the signal and each trough within
\* one sample of a minimum.
C9_ThreePeriodsAtMostTwoPairs ==
    DefaultCallFinished =>
        \/ /\ pc = "Failed"
           /\ 0 \in Range(rsp_cleaned)
           /\ risex = <<>> \/ fallx = <<>>
        \/ /\ Returned
           /\ Len(info[1].RSP_Peaks) \in {1, 2}
           /\ Len(info[1].RSP_Troughs) = Len(info[1].RSP_Peaks)
           /\ \A k \in 1..Len(info[1].RSP_Peaks) :
                 /\ NearMaximum(info[1].RSP_Peaks[k])
                 /\ NearMinimum(info[1].RSP_Troughs[k])

C9_Witness ==
    /\ DefaultCallFinished
    /\ Returned
    /\ Len(located) = 5
    /\ Len(info[1].RSP_Peaks) = 2

\* C10: window i is searched for a maximum exactly when the crossing allx[i]
\* that opens it is a rising one.
C10_ParityMatchesCrossing ==
    LocatorPassed =>
        \A k \in 1..(Len(allx) - 1) :
            (argextremes[k] = "argmax") <=> (allx[k] \in Range(risex))

============================================================================
